---- MODULE Spec2Model ----
(***************************************************************************)
(* Model of the per-user token-bucket rate limiter of                      *)
(* backend/src/websockets/rate-limiter.ts.                                 *)
(*                                                                         *)
(* Time is in milliseconds, as returned by Date.now().  One call of an     *)
(* exported function is one atomic step (the host is a single-threaded     *)
(* event loop and no function awaits).  Every Date.now() read inside one   *)
(* call is a read of its own: the clock may move between two of them.      *)
(*                                                                         *)
(* The module also holds a model of the promise built by                   *)
(* runTerminalCommand of sdk/src/tools/run-terminal-command.ts: one run of *)
(* the timeout callback or of a listener of the child process is one       *)
(* atomic step, for the same reason.                                       *)
(***************************************************************************)
EXTENDS Integers, Sequences, FiniteSets, TLC

\* ---- program constants (RATE_LIMIT_CONFIG and the setInterval period) ----
BUCKET_CAPACITY == 10
REFILL_RATE == 2
REFILL_INTERVAL_MS == 1000
CLEANUP_AFTER_MS == 300000
CLEANUP_EVERY_MS == 60000

\* ---- bounds of the model ----
\* number of clock changes in one behaviour, between calls and inside them
MaxAdvances == 2
\* number of setInterval timers alive at once
MaxTimers == 2
\* number of rejected isRateLimited calls for one user at one clock value
MaxRejects == 2
\* number of isRateLimited calls of a user whose calls are counted
MaxOtherCalls == 1
\* number of clock changes in one behaviour with two users, or with start
\* and stop in any order
PairAdvances == 1
\* number of clock changes in one behaviour next to a second store
StatusAdvances == 3
\* number of clock changes, between calls and inside them, in one behaviour in
\* which admitted calls are counted
WindowAdvances == 2
\* number of 'data' events on each of the child's output streams
MaxChunks == 2
\* number of 'error' events the child process emits
MaxErrors == 2

\* user ids presented to the limiter
Users == {"u1", "u2"}
\* amounts by which Date.now() grows between two calls: half an interval,
\* one interval, and an idle period longer than CLEANUP_AFTER_MS
Deltas == {REFILL_INTERVAL_MS \div 2, REFILL_INTERVAL_MS,
           CLEANUP_AFTER_MS + REFILL_INTERVAL_MS \div 2}
\* amounts by which Date.now() grows between two reads made by one call: one
\* millisecond, and a stall of half an interval
Ticks == {1, REFILL_INTERVAL_MS \div 2}

VARIABLES
  now,               \* value of Date.now()
  advances,          \* number of clock changes the host may still make
  quota,             \* per user, isRateLimited calls still to come (-1: any number)
  RATE_LIMIT_CONFIG, \* the exported configuration object
  rateLimitStore,    \* Map<string, RateLimitRecord>
  storeKeys,         \* the keys of rateLimitStore in iteration (insertion) order
  cleanupInterval,   \* TRUE iff the module variable holds a timer handle
  timers,            \* number of setInterval timers that are still scheduled
  call,              \* the last call made: its name, its userId argument, and the
                     \* values Date.now() gave it, in order
  ret,               \* the value that call returned, as a record: [rejected |-> b]
                     \* for isRateLimited, Void for a call that returns nothing
  log,               \* the logger calls that call made, in order
  run,               \* per tracked user, the isRateLimited calls made at this clock value
  lastWarned,        \* user ids whose latest logged event is "User hit rate limit"
                     \* ({NoUser}: the events are not followed)
  mirror,            \* a second store that is given the same calls but one kind
  window,            \* the admitted isRateLimited calls of one user since some clock change
  process_type,      \* runTerminalCommand: the process_type argument
  command,           \* the command argument, a sequence of characters
  cwd,               \* the cwd argument
  spawnError,        \* what the operating system answers when this process
                     \* starts a child: "none" (the child is started), "EMFILE"
                     \* (no file descriptor is left) or "ENOMEM"
  childProcess,      \* "spawned" once spawn() has returned the child, else "none"
  timeout_seconds,   \* the timeout_seconds argument
  stdout,            \* the chunks appended to `stdout`, in order
  stderr,            \* the chunks appended to `stderr`, in order
  timer,             \* the timeout: "null" (none set), "armed", "fired" or "cleared"
  processFinished,   \* the flag of that name
  promise,           \* the returned promise: its state ("none": the call threw
                     \* and returned no promise), its value (the error thrown,
                     \* when the call or the executor threw), and the number of
                     \* resolve and reject calls made on it
  signals,           \* the signals passed to childProcess.kill, in order
  emitted            \* the timeout, 'close' and 'error' events so far, in order,
                     \* and "exit" when an uncaught exception ended the process

\* the variables of the rate limiter
limiterVars == <<now, advances, quota, RATE_LIMIT_CONFIG, rateLimitStore, storeKeys,
                 cleanupInterval, timers, call, ret, log, run, lastWarned, mirror, window>>

\* the variables of one runTerminalCommand call
commandVars == <<process_type, command, cwd, spawnError, childProcess, timeout_seconds, stdout,
                 stderr, timer, processFinished, promise,
                 signals, emitted>>

vars == <<now, advances, quota, RATE_LIMIT_CONFIG, rateLimitStore, storeKeys,
          cleanupInterval, timers, call, ret, log, run, lastWarned, mirror, window,
          process_type, command, cwd, spawnError, childProcess,
          timeout_seconds, stdout, stderr, timer, processFinished, promise,
          signals, emitted>>

Min(a, b) == IF a <= b THEN a ELSE b
Max(a, b) == IF a >= b THEN a ELSE b

\* the object literal exported as RATE_LIMIT_CONFIG
ShippedConfig ==
  [BUCKET_CAPACITY |-> BUCKET_CAPACITY,
   REFILL_RATE |-> REFILL_RATE,
   REFILL_INTERVAL_MS |-> REFILL_INTERVAL_MS,
   CLEANUP_AFTER_MS |-> CLEANUP_AFTER_MS]

\* variant of createTokenBucket: the new bucket is one token short
createTokenBucketOneShort(cfg, t) ==
  [tokens |-> cfg.BUCKET_CAPACITY - 1,
   lastRefill |-> t,
   capacity |-> cfg.BUCKET_CAPACITY,
   refillRate |-> cfg.REFILL_RATE]

\* createTokenBucket(), with t the value of Date.now()
createTokenBucket(cfg, t) ==
  [tokens |-> cfg.BUCKET_CAPACITY,
   lastRefill |-> t,
   capacity |-> cfg.BUCKET_CAPACITY,
   refillRate |-> cfg.REFILL_RATE]

\* variant of refillTokens: no Math.min against the capacity
refillTokensNoClamp(cfg, bucket, t) ==
  LET timeSinceLastRefill == t - bucket.lastRefill IN
  IF timeSinceLastRefill >= cfg.REFILL_INTERVAL_MS
  THEN LET intervalsElapsed == timeSinceLastRefill \div cfg.REFILL_INTERVAL_MS
           tokensToAdd == intervalsElapsed * bucket.refillRate
       IN [bucket EXCEPT !.tokens = bucket.tokens + tokensToAdd,
                         !.lastRefill = t]
  ELSE bucket

\* variant of refillTokens: refills only when more than one interval has passed
refillTokensStrict(cfg, bucket, t) ==
  LET timeSinceLastRefill == t - bucket.lastRefill IN
  IF timeSinceLastRefill > cfg.REFILL_INTERVAL_MS
  THEN LET intervalsElapsed == timeSinceLastRefill \div cfg.REFILL_INTERVAL_MS
           tokensToAdd == intervalsElapsed * bucket.refillRate
       IN [bucket EXCEPT !.tokens = Min(bucket.capacity, bucket.tokens + tokensToAdd),
                         !.lastRefill = t]
  ELSE bucket

\* variant of refillTokens: grants refillRate once, whatever the number of intervals
refillTokensOneInterval(cfg, bucket, t) ==
  LET timeSinceLastRefill == t - bucket.lastRefill IN
  IF timeSinceLastRefill >= cfg.REFILL_INTERVAL_MS
  THEN LET tokensToAdd == bucket.refillRate
       IN [bucket EXCEPT !.tokens = Min(bucket.capacity, bucket.tokens + tokensToAdd),
                         !.lastRefill = t]
  ELSE bucket

\* variant of refillTokens: runs as soon as any time has passed
refillTokensAnyElapsed(cfg, bucket, t) ==
  LET timeSinceLastRefill == t - bucket.lastRefill IN
  IF timeSinceLastRefill > 0
  THEN LET intervalsElapsed == timeSinceLastRefill \div cfg.REFILL_INTERVAL_MS
           tokensToAdd == intervalsElapsed * bucket.refillRate
       IN [bucket EXCEPT !.tokens = Min(bucket.capacity, bucket.tokens + tokensToAdd),
                         !.lastRefill = t]
  ELSE bucket

\* variant of refillTokens: the elapsed time is taken without its sign
refillTokensAbsElapsed(cfg, bucket, t) ==
  LET timeSinceLastRefill == Max(t - bucket.lastRefill, bucket.lastRefill - t) IN
  IF timeSinceLastRefill >= cfg.REFILL_INTERVAL_MS
  THEN LET intervalsElapsed == timeSinceLastRefill \div cfg.REFILL_INTERVAL_MS
           tokensToAdd == intervalsElapsed * bucket.refillRate
       IN [bucket EXCEPT !.tokens = Min(bucket.capacity, bucket.tokens + tokensToAdd),
                         !.lastRefill = t]
  ELSE bucket

\* variant of refillTokens: lastRefill moves by the whole intervals granted
refillTokensCarryRemainder(cfg, bucket, t) ==
  LET timeSinceLastRefill == t - bucket.lastRefill IN
  IF timeSinceLastRefill >= cfg.REFILL_INTERVAL_MS
  THEN LET intervalsElapsed == timeSinceLastRefill \div cfg.REFILL_INTERVAL_MS
           tokensToAdd == intervalsElapsed * bucket.refillRate
       IN [bucket EXCEPT !.tokens = Min(bucket.capacity, bucket.tokens + tokensToAdd),
                         !.lastRefill = @ + intervalsElapsed * cfg.REFILL_INTERVAL_MS]
  ELSE bucket

\* variant of refillTokens: the tokens are granted, lastRefill is left alone
refillTokensKeepsLastRefill(cfg, bucket, t) ==
  LET timeSinceLastRefill == t - bucket.lastRefill IN
  IF timeSinceLastRefill >= cfg.REFILL_INTERVAL_MS
  THEN LET intervalsElapsed == timeSinceLastRefill \div cfg.REFILL_INTERVAL_MS
           tokensToAdd == intervalsElapsed * bucket.refillRate
       IN [bucket EXCEPT !.tokens = Min(bucket.capacity, bucket.tokens + tokensToAdd)]
  ELSE bucket

\* refillTokens(bucket), with t the value of Date.now(); returns the bucket
\* as the call leaves it
refillTokens(cfg, bucket, t) ==
  LET timeSinceLastRefill == t - bucket.lastRefill IN
  IF timeSinceLastRefill >= cfg.REFILL_INTERVAL_MS
  THEN LET intervalsElapsed == timeSinceLastRefill \div cfg.REFILL_INTERVAL_MS
           tokensToAdd == intervalsElapsed * bucket.refillRate
       IN [bucket EXCEPT !.tokens = Min(bucket.capacity, bucket.tokens + tokensToAdd),
                         !.lastRefill = t]
  ELSE bucket

\* the record isRateLimited works on: the stored one, or a new one; t is the
\* value Date.now() gave isRateLimited (line 110), tb the value it gave
\* createTokenBucket (line 80)
getOrCreateRecord(cfg, store, userId, t, tb) ==
  IF userId \in DOMAIN store
  THEN store[userId]
  ELSE [bucket |-> createTokenBucket(cfg, tb),
        lastAccess |-> t,
        isCurrentlyRateLimited |-> FALSE,
        lastRateLimitLog |-> 0]

\* the record after lines 124-131: lastAccess stamped, bucket refilled; tr
\* is the value Date.now() gave refillTokens (line 90)
touchedRecord(cfg, store, userId, t, tb, tr) ==
  LET record == getOrCreateRecord(cfg, store, userId, t, tb) IN
  [record EXCEPT !.lastAccess = t,
                 !.bucket = refillTokens(cfg, record.bucket, tr)]

\* variant of recordAfterCheck: the limited flag is not cleared on recovery
recordAfterCheckKeepsFlag(cfg, store, userId, t, tb, tr) ==
  LET record == touchedRecord(cfg, store, userId, t, tb, tr)
  IN IF record.bucket.tokens >= 1
     THEN [record EXCEPT !.bucket.tokens = @ - 1]
     ELSE IF ~record.isCurrentlyRateLimited
          THEN [record EXCEPT !.isCurrentlyRateLimited = TRUE,
                              !.lastRateLimitLog = t]
          ELSE record

\* the record isRateLimited leaves in the store
recordAfterCheck(cfg, store, userId, t, tb, tr) ==
  LET wasRateLimited == getOrCreateRecord(cfg, store, userId, t, tb).isCurrentlyRateLimited
      record == touchedRecord(cfg, store, userId, t, tb, tr)
  IN IF record.bucket.tokens >= 1
     THEN [record EXCEPT !.bucket.tokens = @ - 1,
                         !.isCurrentlyRateLimited = IF wasRateLimited THEN FALSE ELSE @]
     ELSE IF ~record.isCurrentlyRateLimited
          THEN [record EXCEPT !.isCurrentlyRateLimited = TRUE,
                              !.lastRateLimitLog = t]
          ELSE record

\* the value isRateLimited returns: TRUE = rate limited (reject)
checkResult(cfg, store, userId, t, tb, tr) ==
  ~(touchedRecord(cfg, store, userId, t, tb, tr).bucket.tokens >= 1)

\* variant of checkLog: every rejection is logged, recoveries as in the code
checkLogEveryRejection(cfg, store, userId, t, tb, tr) ==
  LET wasRateLimited == getOrCreateRecord(cfg, store, userId, t, tb).isCurrentlyRateLimited
      record == touchedRecord(cfg, store, userId, t, tb, tr)
  IN IF record.bucket.tokens >= 1
     THEN IF wasRateLimited
          THEN <<[level |-> "info",
                  msg |-> "User rate limit removed - tokens refilled",
                  userId |-> userId,
                  tokensRemaining |-> record.bucket.tokens - 1,
                  bucketCapacity |-> record.bucket.capacity]>>
          ELSE <<>>
     ELSE <<[level |-> "warn",
             msg |-> "User hit rate limit",
             userId |-> userId,
             tokensRemaining |-> record.bucket.tokens,
             bucketCapacity |-> record.bucket.capacity,
             refillRate |-> record.bucket.refillRate,
             nextRefillIn |-> cfg.REFILL_INTERVAL_MS - (t - record.bucket.lastRefill)]>>

\* variant of checkLog: the recovery is logged without testing wasRateLimited
checkLogEveryAdmission(cfg, store, userId, t, tb, tr) ==
  LET record == touchedRecord(cfg, store, userId, t, tb, tr)
      after == recordAfterCheck(cfg, store, userId, t, tb, tr)
  IN IF record.bucket.tokens >= 1
     THEN <<[level |-> "info",
             msg |-> "User rate limit removed - tokens refilled",
             userId |-> userId,
             tokensRemaining |-> after.bucket.tokens,
             bucketCapacity |-> after.bucket.capacity]>>
     ELSE IF ~record.isCurrentlyRateLimited
          THEN <<[level |-> "warn",
                  msg |-> "User hit rate limit",
                  userId |-> userId,
                  tokensRemaining |-> after.bucket.tokens,
                  bucketCapacity |-> after.bucket.capacity,
                  refillRate |-> after.bucket.refillRate,
                  nextRefillIn |-> cfg.REFILL_INTERVAL_MS - (t - after.bucket.lastRefill)]>>
          ELSE <<>>

\* the logger calls isRateLimited makes
checkLog(cfg, store, userId, t, tb, tr) ==
  LET wasRateLimited == getOrCreateRecord(cfg, store, userId, t, tb).isCurrentlyRateLimited
      record == touchedRecord(cfg, store, userId, t, tb, tr)
      after == recordAfterCheck(cfg, store, userId, t, tb, tr)
  IN IF record.bucket.tokens >= 1
     THEN IF wasRateLimited
          THEN <<[level |-> "info",
                  msg |-> "User rate limit removed - tokens refilled",
                  userId |-> userId,
                  tokensRemaining |-> after.bucket.tokens,
                  bucketCapacity |-> after.bucket.capacity]>>
          ELSE <<>>
     ELSE IF ~record.isCurrentlyRateLimited
          THEN <<[level |-> "warn",
                  msg |-> "User hit rate limit",
                  userId |-> userId,
                  tokensRemaining |-> after.bucket.tokens,
                  bucketCapacity |-> after.bucket.capacity,
                  refillRate |-> after.bucket.refillRate,
                  nextRefillIn |-> cfg.REFILL_INTERVAL_MS - (t - after.bucket.lastRefill)]>>
          ELSE <<>>

\* variant of storeSet: one record object shared by every key
storeSetShared(store, userId, record) ==
  [v \in DOMAIN store \cup {userId} |-> record]

\* the store with userId mapped to record (Map.set)
storeSet(store, userId, record) ==
  [v \in DOMAIN store \cup {userId} |-> IF v = userId THEN record ELSE store[v]]

\* the store without the given keys (Map.delete for each)
storeDelete(store, keys) ==
  [v \in DOMAIN store \ keys |-> store[v]]

\* variant of statusResult: nextRefillIn from the lastRefill before the refill
statusResultStaleRefill(cfg, store, userId, tr, t) ==
  IF userId \notin DOMAIN store
  THEN [tokensRemaining |-> cfg.BUCKET_CAPACITY,
        capacity |-> cfg.BUCKET_CAPACITY,
        refillRate |-> cfg.REFILL_RATE,
        nextRefillIn |-> 0]
  ELSE LET bucket == refillTokens(cfg, store[userId].bucket, tr)
           timeSinceLastRefill == t - store[userId].bucket.lastRefill
       IN [tokensRemaining |-> bucket.tokens,
           capacity |-> bucket.capacity,
           refillRate |-> bucket.refillRate,
           nextRefillIn |-> Max(0, cfg.REFILL_INTERVAL_MS - timeSinceLastRefill)]

\* the value getRateLimitStatus returns; tr is the value Date.now() gave
\* refillTokens (line 90), t the value it gave at line 197
statusResult(cfg, store, userId, tr, t) ==
  IF userId \notin DOMAIN store
  THEN [tokensRemaining |-> cfg.BUCKET_CAPACITY,
        capacity |-> cfg.BUCKET_CAPACITY,
        refillRate |-> cfg.REFILL_RATE,
        nextRefillIn |-> 0]
  ELSE LET bucket == refillTokens(cfg, store[userId].bucket, tr)
           timeSinceLastRefill == t - bucket.lastRefill
       IN [tokensRemaining |-> bucket.tokens,
           capacity |-> bucket.capacity,
           refillRate |-> bucket.refillRate,
           nextRefillIn |-> Max(0, cfg.REFILL_INTERVAL_MS - timeSinceLastRefill)]

\* variant of storeRefilled: a missing key gets a new record, as in isRateLimited
storeRefilledCreating(cfg, store, keys, at) ==
  [v \in DOMAIN store \cup keys |->
     LET record == getOrCreateRecord(cfg, store, v, at[v], at[v]) IN
     IF v \in keys
     THEN [record EXCEPT !.bucket = refillTokens(cfg, record.bucket, at[v])]
     ELSE record]

\* variant of storeRefilled: the refilled records get lastAccess = t as well
storeRefilledTouching(cfg, store, keys, at) ==
  [v \in DOMAIN store |->
     IF v \in keys
     THEN [store[v] EXCEPT !.bucket = refillTokens(cfg, store[v].bucket, at[v]),
                           !.lastAccess = at[v]]
     ELSE store[v]]

\* the store after refillTokens has been applied to the buckets of `keys`,
\* at[v] being the value Date.now() gave the refillTokens call for key v
storeRefilled(cfg, store, keys, at) ==
  [v \in DOMAIN store |->
     IF v \in keys
     THEN [store[v] EXCEPT !.bucket = refillTokens(cfg, store[v].bucket, at[v])]
     ELSE store[v]]

\* variant of sumTokens: totalTokens is assigned, not accumulated
sumTokensAssigned(store, keys) ==
  IF keys = {} THEN 0
  ELSE store[CHOOSE x \in keys : TRUE].bucket.tokens

RECURSIVE sumTokens(_, _)
\* totalTokens accumulated over the records of `keys`
sumTokens(store, keys) ==
  IF keys = {} THEN 0
  ELSE LET v == CHOOSE x \in keys : TRUE
       IN store[v].bucket.tokens + sumTokens(store, keys \ {v})

\* variant of entriesToDelete: a record idle for exactly the threshold goes too
entriesToDeleteInclusive(cfg, store, t) ==
  {userId \in DOMAIN store : t - store[userId].lastAccess >= cfg.CLEANUP_AFTER_MS}

\* variant of entriesToDelete: a record marked limited is never collected
entriesToDeleteUnlimitedOnly(cfg, store, t) ==
  {userId \in DOMAIN store : /\ t - store[userId].lastAccess > cfg.CLEANUP_AFTER_MS
                             /\ ~store[userId].isCurrentlyRateLimited}

\* the keys the cleanup callback collects in entriesToDelete
entriesToDelete(cfg, store, t) ==
  {userId \in DOMAIN store : t - store[userId].lastAccess > cfg.CLEANUP_AFTER_MS}

\* ---- history of the isRateLimited calls made since the clock last changed ----
\* created:  the value Date.now() gave createTokenBucket for the record
\* before:   the record as it was when the clock reached its current value,
\*           or as it was created if that happened since
\* n:        number of isRateLimited calls for the user that ended at this
\*           clock value
\* rejects:  number of them that returned true
\* rejected: the value the latest isRateLimited call for the user returned
\* warned:   the latest event logged for this record is "User hit rate limit"
runAfterCheck(cfg, store, r, userId, t, tb, tr) ==
  LET result == checkResult(cfg, store, userId, t, tb, tr)
      events == checkLog(cfg, store, userId, t, tb, tr)
      base == IF userId \in DOMAIN store
              THEN IF tr = t
                   THEN r[userId]
                   ELSE [r[userId] EXCEPT !.before = store[userId], !.n = 0, !.rejects = 0]
              ELSE [created |-> tb,
                    before |-> getOrCreateRecord(cfg, store, userId, t, tb),
                    n |-> 0,
                    rejects |-> 0,
                    rejected |-> FALSE,
                    warned |-> FALSE]
  IN [base EXCEPT !.n = @ + 1,
                  !.rejects = IF result THEN @ + 1 ELSE @,
                  !.rejected = result,
                  !.warned = IF events = << >> THEN @ ELSE events[Len(events)].level = "warn"]

NoUser == "-"

\* the users whose latest logged event is "User hit rate limit", after a call
\* for userId that logged `events`
lastWarnedAfter(warnedUsers, userId, events) ==
  IF NoUser \in warnedUsers \/ events = << >> THEN warnedUsers
  ELSE IF events[Len(events)].level = "warn"
       THEN warnedUsers \cup {userId}
       ELSE warnedUsers \ {userId}

\* ---- the window: a count of the calls of one user that were admitted ----
\* from:     the calls counted are those made when at most `from` clock
\*           changes are left (-1: no call is counted)
\* start:    the clock value refillTokens read in the first call counted, -1
\*           before it
\* admitted: number of counted calls that returned false
windowAfter(w, userId, clockStepsLeft, rejected, t) ==
  IF userId # w.userId \/ clockStepsLeft > w.from \/ rejected
  THEN w
  ELSE [w EXCEPT !.start = IF @ < 0 THEN t ELSE @, !.admitted = @ + 1]

\* ---- the mirror: a store given the same calls as rateLimitStore, except ----
\* the calls of one kind: "noSweep" leaves the timer callback out,
\* "noStatus" leaves getRateLimitStatus out, "off" keeps no mirror
mirrorAfter(m, kind, storeAfter) ==
  IF m.mode = "off" \/ m.mode = kind THEN m ELSE [m EXCEPT !.store = storeAfter]

\* the history once the clock has changed
runAfterAdvance(store, r) ==
  [v \in DOMAIN r |-> [r[v] EXCEPT !.before = store[v], !.n = 0, !.rejects = 0]]

\* the values Date.now() may give at the next read of a call, when it gave t
\* at the last one and the clock may still change k times
nextReads(t, k) == IF k > 0 THEN {t} \cup {t + d : d \in Ticks} ELSE {t}

\* number of clock changes seen by reads made in a row, after a read of t
clockChanges(t, reads) ==
  Cardinality({i \in DOMAIN reads : reads[i] # (IF i = 1 THEN t ELSE reads[i - 1])})

RECURSIVE readSequences(_, _, _)
\* the sequences of n values that n reads of Date.now() in a row may give,
\* the first of them t, when the clock may still change k times
readSequences(t, k, n) ==
  IF n = 0 THEN {<< >>}
  ELSE IF n = 1 THEN {<<t>>}
  ELSE UNION {{rs \o <<u>> : u \in nextReads(rs[n - 1], k - clockChanges(t, rs))} :
                rs \in readSequences(t, k, n - 1)}

\* number of clock changes between the reads t1 and t2
moved(t1, t2) == IF t1 = t2 THEN 0 ELSE 1

\* the keys in order, without those of `gone` (Map.delete)
keysWithout(keys, gone) ==
  LET Kept(k) == k \notin gone IN SelectSeq(keys, Kept)

\* the keys in order after Map.set: a new key goes to the end
keysWith(keys, userId) ==
  IF \E i \in DOMAIN keys : keys[i] = userId THEN keys ELSE Append(keys, userId)

\* the history after a call that read the clock first at t and last at tl and
\* left `store`: when the clock moved, what was counted at the old value ends
runAfterReads(store, r, t, tl) ==
  IF t = tl THEN r
  ELSE [v \in DOMAIN r |-> [r[v] EXCEPT !.before = store[v], !.n = 0, !.rejects = 0]]

Void == [void |-> TRUE]

\* RATE_LIMIT_CONFIG after REFILL_RATE was set to 0, as the zero refill rate
\* test does
ZeroRateConfig == [ShippedConfig EXCEPT !.REFILL_RATE = 0]

\* RATE_LIMIT_CONFIG with a bucket capacity of 0
NoCapacityConfig == [ShippedConfig EXCEPT !.BUCKET_CAPACITY = 0]

\* RATE_LIMIT_CONFIG with a negative refill rate
NegativeRateConfig == [ShippedConfig EXCEPT !.REFILL_RATE = -1]

OtherConfigs == {ZeroRateConfig, NoCapacityConfig, NegativeRateConfig}

\* the value of a promise that is not settled
NoValue == [type |-> "none"]

\* runTerminalCommand has not been called
NoCommand ==
  /\ process_type = "SYNC"
  /\ command = << >>
  /\ cwd = "."
  /\ spawnError = "none"
  /\ childProcess = "none"
  /\ timeout_seconds = -1
  /\ stdout = << >>
  /\ stderr = << >>
  /\ timer = "null"
  /\ processFinished = FALSE
  /\ promise = [state |-> "none", value |-> NoValue, calls |-> 0]
  /\ signals = << >>
  /\ emitted = << >>

\* the module just loaded: empty store, no timer
Loaded ==
  /\ now = 0
  /\ RATE_LIMIT_CONFIG = ShippedConfig
  /\ rateLimitStore = << >>
  /\ storeKeys = << >>
  /\ cleanupInterval = FALSE
  /\ timers = 0
  /\ call = [name |-> "load", userId |-> NoUser, reads |-> << >>]
  /\ ret = Void
  /\ log = << >>
  /\ run = << >>

NoMirror == [mode |-> "off", store |-> << >>]

NoWindow == [userId |-> NoUser, from |-> -1, start |-> -1, admitted |-> 0]

\* one user calls, any number of times
Init ==
  /\ Loaded
  /\ lastWarned = {NoUser}
  /\ mirror = NoMirror
  /\ window = NoWindow
  /\ NoCommand
  /\ advances = MaxAdvances
  /\ quota = [u \in Users |-> IF u = "u1" THEN -1 ELSE 0]

\* the module loaded and initializeRateLimiter() called once, as the server
\* does at start-up; two users call, the second one a bounded number of times
InitPair ==
  /\ now = 0
  /\ RATE_LIMIT_CONFIG = ShippedConfig
  /\ rateLimitStore = << >>
  /\ storeKeys = << >>
  /\ cleanupInterval = TRUE
  /\ timers = 1
  /\ call = [name |-> "initializeRateLimiter", userId |-> NoUser, reads |-> << >>]
  /\ ret = Void
  /\ log = << >>
  /\ run = << >>
  /\ lastWarned = {}
  /\ mirror = NoMirror
  /\ window = NoWindow
  /\ NoCommand
  /\ advances = PairAdvances
  /\ quota = [u \in Users |-> IF u = "u1" THEN -1 ELSE MaxOtherCalls]

\* a started limiter whose configuration is not the shipped one; one user calls
InitConfigs ==
  /\ now = 0
  /\ RATE_LIMIT_CONFIG \in OtherConfigs
  /\ rateLimitStore = << >>
  /\ storeKeys = << >>
  /\ cleanupInterval = TRUE
  /\ timers = 1
  /\ call = [name |-> "initializeRateLimiter", userId |-> NoUser, reads |-> << >>]
  /\ ret = Void
  /\ log = << >>
  /\ run = << >>
  /\ lastWarned = {}
  /\ mirror = NoMirror
  /\ window = NoWindow
  /\ NoCommand
  /\ advances = PairAdvances
  /\ quota = [u \in Users |-> IF u = "u1" THEN -1 ELSE 0]

\* a started limiter with the shipped configuration or another one; one user
\* calls
InitAllConfigs ==
  /\ now = 0
  /\ RATE_LIMIT_CONFIG \in OtherConfigs \cup {ShippedConfig}
  /\ rateLimitStore = << >>
  /\ storeKeys = << >>
  /\ cleanupInterval = TRUE
  /\ timers = 1
  /\ call = [name |-> "initializeRateLimiter", userId |-> NoUser, reads |-> << >>]
  /\ ret = Void
  /\ log = << >>
  /\ run = << >>
  /\ lastWarned = {}
  /\ mirror = NoMirror
  /\ window = NoWindow
  /\ NoCommand
  /\ advances = PairAdvances
  /\ quota = [u \in Users |-> IF u = "u1" THEN -1 ELSE 0]

\* a started limiter with the shipped configuration and one calling user,
\* next to a mirror store that is given every call of `kind` but none other
Mirrored(kind, clockSteps) ==
  /\ now = 0
  /\ RATE_LIMIT_CONFIG = ShippedConfig
  /\ rateLimitStore = << >>
  /\ storeKeys = << >>
  /\ cleanupInterval = TRUE
  /\ timers = 1
  /\ call = [name |-> "initializeRateLimiter", userId |-> NoUser, reads |-> << >>]
  /\ ret = Void
  /\ log = << >>
  /\ run = << >>
  /\ lastWarned = {}
  /\ mirror = [mode |-> kind, store |-> << >>]
  /\ window = NoWindow
  /\ NoCommand
  /\ advances = clockSteps
  /\ quota = [u \in Users |-> IF u = "u1" THEN -1 ELSE 0]

\* a started limiter with the shipped configuration and one calling user
InitStarted == Mirrored("off", PairAdvances)

\* the mirror store is never swept
InitNoSweep == Mirrored("noSweep", StatusAdvances)

\* the mirror store is never given a getRateLimitStatus call
InitNoStatus == Mirrored("noStatus", StatusAdvances)

\* a started limiter with the shipped configuration and one calling user,
\* whose admitted calls are counted from one of the clock values on
InitWindow ==
  /\ now = 0
  /\ RATE_LIMIT_CONFIG = ShippedConfig
  /\ rateLimitStore = << >>
  /\ storeKeys = << >>
  /\ cleanupInterval = TRUE
  /\ timers = 1
  /\ call = [name |-> "initializeRateLimiter", userId |-> NoUser, reads |-> << >>]
  /\ ret = Void
  /\ log = << >>
  /\ run = << >>
  /\ lastWarned = {}
  /\ mirror = NoMirror
  /\ \E k \in 0..WindowAdvances :
        window = [userId |-> "u1", from |-> k, start |-> -1, admitted |-> 0]
  /\ NoCommand
  /\ advances = WindowAdvances
  /\ quota = [u \in Users |-> IF u = "u1" THEN -1 ELSE 0]

\* initializeRateLimiter(): schedules a timer and stores its handle
initializeRateLimiter ==
  /\ timers < MaxTimers
  /\ call' = [name |-> "initializeRateLimiter", userId |-> NoUser, reads |-> << >>]
  /\ UNCHANGED commandVars
  /\ timers' = timers + 1
  /\ cleanupInterval' = TRUE
  /\ ret' = Void
  /\ log' = << >>
  /\ UNCHANGED <<now, advances, quota, RATE_LIMIT_CONFIG, rateLimitStore, storeKeys, run,
                 lastWarned, mirror, window>>

\* the setInterval callback of initializeRateLimiter, run by any live timer
cleanupCallback ==
  /\ timers > 0
  /\ call' = [name |-> "cleanupCallback", userId |-> NoUser, reads |-> <<now>>]
  /\ UNCHANGED commandVars
  /\ LET gone == entriesToDelete(RATE_LIMIT_CONFIG, rateLimitStore, now) IN
       /\ rateLimitStore' = storeDelete(rateLimitStore, gone)
       /\ storeKeys' = keysWithout(storeKeys, gone)
       /\ run' = storeDelete(run, gone)
       /\ log' = IF Cardinality(gone) > 0
                 THEN <<[level |-> "debug",
                         msg |-> "Cleaned up stale rate limit entries",
                         cleanedUpUsers |-> Cardinality(gone)]>>
                 ELSE << >>
  /\ mirror' = mirrorAfter(mirror, "noSweep",
                 storeDelete(mirror.store,
                             entriesToDelete(RATE_LIMIT_CONFIG, mirror.store, now)))
  /\ ret' = Void
  /\ UNCHANGED <<now, advances, quota, RATE_LIMIT_CONFIG, cleanupInterval, timers,
                 lastWarned, window>>

\* variant of cleanupRateLimiter: the interval is cleared, the store is kept
cleanupRateLimiterTimerOnly ==
  /\ call' = [name |-> "cleanupRateLimiter", userId |-> NoUser, reads |-> << >>]
  /\ UNCHANGED commandVars
  /\ timers' = IF cleanupInterval THEN timers - 1 ELSE timers
  /\ cleanupInterval' = FALSE
  /\ UNCHANGED <<rateLimitStore, storeKeys, run>>
  /\ mirror' = mirrorAfter(mirror, "none", << >>)
  /\ ret' = Void
  /\ log' = << >>
  /\ UNCHANGED <<now, advances, quota, RATE_LIMIT_CONFIG, lastWarned, window>>

\* cleanupRateLimiter(): clears the timer whose handle is stored, and the store
cleanupRateLimiter ==
  /\ call' = [name |-> "cleanupRateLimiter", userId |-> NoUser, reads |-> << >>]
  /\ UNCHANGED commandVars
  /\ timers' = IF cleanupInterval THEN timers - 1 ELSE timers
  /\ cleanupInterval' = FALSE
  /\ rateLimitStore' = << >>
  /\ storeKeys' = << >>
  /\ run' = << >>
  /\ mirror' = mirrorAfter(mirror, "none", << >>)
  /\ ret' = Void
  /\ log' = << >>
  /\ UNCHANGED <<now, advances, quota, RATE_LIMIT_CONFIG, lastWarned, window>>

\* isRateLimited(userId): Date.now() is read at line 110 (t), by
\* createTokenBucket when the user has no record (tb), and by refillTokens (tr)
isRateLimited(userId) ==
  /\ quota[userId] # 0
  /\ userId \in DOMAIN rateLimitStore => run[userId].rejects < MaxRejects
  /\ \E tb \in IF userId \in DOMAIN rateLimitStore THEN {now} ELSE nextReads(now, advances) :
       \E tr \in nextReads(tb, advances - moved(now, tb)) :
         LET t == now IN
         /\ call' = [name |-> "isRateLimited", userId |-> userId,
                     reads |-> IF userId \in DOMAIN rateLimitStore
                               THEN <<t, tr>> ELSE <<t, tb, tr>>]
         /\ now' = tr
         /\ advances' = advances - moved(t, tb) - moved(tb, tr)
         /\ rateLimitStore' = storeSet(rateLimitStore, userId,
                recordAfterCheck(RATE_LIMIT_CONFIG, rateLimitStore, userId, t, tb, tr))
         /\ storeKeys' = keysWith(storeKeys, userId)
         /\ ret' = [rejected |->
                      checkResult(RATE_LIMIT_CONFIG, rateLimitStore, userId, t, tb, tr)]
         /\ log' = checkLog(RATE_LIMIT_CONFIG, rateLimitStore, userId, t, tb, tr)
         /\ run' = storeSet(runAfterReads(rateLimitStore, run, t, tr), userId,
                runAfterCheck(RATE_LIMIT_CONFIG, rateLimitStore, run, userId, t, tb, tr))
         /\ mirror' = mirrorAfter(mirror, "none",
                storeSet(mirror.store, userId,
                         recordAfterCheck(RATE_LIMIT_CONFIG, mirror.store, userId, t, tb, tr)))
         /\ window' = windowAfter(window, userId, advances', ret'.rejected, tr)
  /\ UNCHANGED commandVars
  /\ quota' = [quota EXCEPT ![userId] = IF @ > 0 THEN @ - 1 ELSE @]
  /\ lastWarned' = lastWarnedAfter(lastWarned, userId, log')
  /\ UNCHANGED <<RATE_LIMIT_CONFIG, cleanupInterval, timers>>

\* getRateLimitStatus(userId): for a user with a record Date.now() is read by
\* refillTokens (tr) and at line 197 (t); for any other user it is not read
getRateLimitStatus(userId) ==
  /\ \E t \in IF userId \in DOMAIN rateLimitStore THEN nextReads(now, advances) ELSE {now} :
       LET tr == now IN
       /\ call' = [name |-> "getRateLimitStatus", userId |-> userId,
                   reads |-> IF userId \in DOMAIN rateLimitStore THEN <<tr, t>> ELSE << >>]
       /\ now' = t
       /\ advances' = advances - moved(tr, t)
       /\ rateLimitStore' = storeRefilled(RATE_LIMIT_CONFIG, rateLimitStore, {userId},
                                          [v \in {userId} |-> tr])
       /\ ret' = statusResult(RATE_LIMIT_CONFIG, rateLimitStore, userId, tr, t)
       /\ mirror' = mirrorAfter(mirror, "noStatus",
              storeRefilled(RATE_LIMIT_CONFIG, mirror.store, {userId},
                            [v \in {userId} |-> tr]))
       /\ run' = runAfterReads(rateLimitStore', run, tr, t)
  /\ UNCHANGED commandVars
  /\ log' = << >>
  /\ UNCHANGED <<quota, RATE_LIMIT_CONFIG, storeKeys, cleanupInterval, timers,
                 lastWarned, window>>

\* getRateLimitStats(): Date.now() is read by refillTokens once for every
\* record, in the iteration order of the Map
getRateLimitStats ==
  /\ \E reads \in readSequences(now, advances, Len(storeKeys)) :
       LET at == [v \in DOMAIN rateLimitStore \cup DOMAIN mirror.store |->
                    IF \E i \in DOMAIN storeKeys : storeKeys[i] = v
                    THEN reads[CHOOSE i \in DOMAIN storeKeys : storeKeys[i] = v]
                    ELSE now]
           last == IF reads = << >> THEN now ELSE reads[Len(reads)]
       IN
       /\ call' = [name |-> "getRateLimitStats", userId |-> NoUser, reads |-> reads]
       /\ now' = last
       /\ advances' = advances - clockChanges(now, reads)
       /\ rateLimitStore' = storeRefilled(RATE_LIMIT_CONFIG, rateLimitStore,
                                          DOMAIN rateLimitStore, at)
       /\ mirror' = mirrorAfter(mirror, "none",
              storeRefilled(RATE_LIMIT_CONFIG, mirror.store, DOMAIN mirror.store, at))
       /\ run' = [v \in DOMAIN run |->
                    IF last = now THEN run[v]
                    ELSE [run[v] EXCEPT
                            !.before = IF at[v] = last THEN rateLimitStore[v]
                                       ELSE rateLimitStore'[v],
                            !.n = 0, !.rejects = 0]]
  /\ UNCHANGED commandVars
  /\ ret' = [activeUsers |-> Cardinality(DOMAIN rateLimitStore),
             totalTokensInCirculation |-> sumTokens(rateLimitStore', DOMAIN rateLimitStore),
             config |-> RATE_LIMIT_CONFIG]
  /\ log' = << >>
  /\ UNCHANGED <<quota, RATE_LIMIT_CONFIG, storeKeys, cleanupInterval, timers,
                 lastWarned, window>>

\* the system clock moves forward between two calls
advanceClock ==
  /\ advances > 0
  /\ call' = [name |-> "advanceClock", userId |-> NoUser, reads |-> << >>]
  /\ UNCHANGED commandVars
  /\ \E d \in Deltas : now' = now + d
  /\ advances' = advances - 1
  /\ ret' = Void
  /\ log' = << >>
  /\ run' = runAfterAdvance(rateLimitStore, run)
  /\ UNCHANGED <<quota, RATE_LIMIT_CONFIG, rateLimitStore, storeKeys, cleanupInterval, timers,
                 lastWarned, mirror, window>>

\* the system clock moves forward by exactly CLEANUP_AFTER_MS between two calls
idleClock ==
  /\ advances > 0
  /\ call' = [name |-> "idleClock", userId |-> NoUser, reads |-> << >>]
  /\ UNCHANGED commandVars
  /\ now' = now + RATE_LIMIT_CONFIG.CLEANUP_AFTER_MS
  /\ advances' = advances - 1
  /\ ret' = Void
  /\ log' = << >>
  /\ run' = runAfterAdvance(rateLimitStore, run)
  /\ UNCHANGED <<quota, RATE_LIMIT_CONFIG, rateLimitStore, storeKeys, cleanupInterval, timers,
                 lastWarned, mirror, window>>

\* the system clock is set back between two calls (Date.now() is wall-clock time)
rewindClock ==
  /\ advances > 0
  /\ call' = [name |-> "rewindClock", userId |-> NoUser, reads |-> << >>]
  /\ UNCHANGED commandVars
  /\ \E d \in Deltas : now - d >= 0 /\ now' = now - d
  /\ advances' = advances - 1
  /\ ret' = Void
  /\ log' = << >>
  /\ run' = runAfterAdvance(rateLimitStore, run)
  /\ UNCHANGED <<quota, RATE_LIMIT_CONFIG, rateLimitStore, storeKeys, cleanupInterval, timers,
                 lastWarned, mirror, window>>

\* initializeRateLimiter() called while no timer handle is stored
initializeStopped ==
  /\ cleanupInterval = FALSE
  /\ initializeRateLimiter

Next ==
  \/ initializeStopped
  \/ cleanupCallback
  \/ cleanupRateLimiter
  \/ \E userId \in Users : isRateLimited(userId)
  \/ \E userId \in Users : getRateLimitStatus(userId)
  \/ getRateLimitStats
  \/ advanceClock

Spec == Init /\ [][Next]_vars

\* the module loaded; start and stop in any order, also start after start
InitLifecycle ==
  /\ Loaded
  /\ lastWarned = {}
  /\ mirror = NoMirror
  /\ window = NoWindow
  /\ NoCommand
  /\ advances = PairAdvances
  /\ quota = [u \in Users |-> IF u = "u1" THEN -1 ELSE 0]

NextLifecycle ==
  \/ initializeRateLimiter
  \/ cleanupCallback
  \/ cleanupRateLimiter
  \/ \E userId \in Users : isRateLimited(userId)
  \/ \E userId \in Users : getRateLimitStatus(userId)
  \/ getRateLimitStats
  \/ advanceClock

SpecLifecycle == InitLifecycle /\ [][NextLifecycle]_vars

\* the steps of a started limiter that is not stopped
NextPair ==
  \/ cleanupCallback
  \/ \E userId \in Users : isRateLimited(userId)
  \/ \E userId \in Users : getRateLimitStatus(userId)
  \/ getRateLimitStats
  \/ advanceClock

SpecPair == InitPair /\ [][NextPair]_vars

\* one user calls on a started limiter whose configuration is not the shipped one
SpecConfigs == InitConfigs /\ [][NextPair]_vars

SpecAllConfigs == InitAllConfigs /\ [][NextPair]_vars

SpecWindow == InitWindow /\ [][NextPair]_vars

\* the interval set by initializeRateLimiter keeps firing: the callback is not
\* put off for ever
SpecTimer == InitStarted /\ [][NextPair]_vars /\ WF_vars(cleanupCallback)

\* a schedule of isRateLimited calls and clock changes, and the timer callback
NextChecks ==
  \/ cleanupCallback
  \/ \E userId \in Users : isRateLimited(userId)
  \/ advanceClock
  \/ idleClock

SpecNoSweep == InitNoSweep /\ [][NextChecks]_vars

\* two users, the timer callback, and idle periods of exactly CLEANUP_AFTER_MS
SpecSweep == InitPair /\ [][NextChecks]_vars

\* a started limiter and two users who make MaxOtherCalls calls each, with
\* MaxAdvances clock changes
InitStats ==
  /\ now = 0
  /\ RATE_LIMIT_CONFIG = ShippedConfig
  /\ rateLimitStore = << >>
  /\ storeKeys = << >>
  /\ cleanupInterval = TRUE
  /\ timers = 1
  /\ call = [name |-> "initializeRateLimiter", userId |-> NoUser, reads |-> << >>]
  /\ ret = Void
  /\ log = << >>
  /\ run = << >>
  /\ lastWarned = {NoUser}
  /\ mirror = NoMirror
  /\ window = NoWindow
  /\ NoCommand
  /\ advances = MaxAdvances
  /\ quota = [u \in Users |-> MaxOtherCalls]

\* isRateLimited and getRateLimitStats calls, the timer callback and clock changes
NextStats ==
  \/ cleanupCallback
  \/ \E userId \in Users : isRateLimited(userId)
  \/ getRateLimitStats
  \/ advanceClock

SpecStats == InitStats /\ [][NextStats]_vars

SpecNoStatus == InitNoStatus /\ [][NextPair]_vars

NextSkew ==
  \/ Next
  \/ rewindClock

SpecSkew == Init /\ [][NextSkew]_vars

\* ---- vocabulary of the properties ----
Tracked == DOMAIN rateLimitStore
CallIs(name, userId) == call.name = name /\ call.userId = userId
\* the values Date.now() gave the isRateLimited call c: at line 110, to
\* createTokenBucket (when the call made a record) and to refillTokens
ReadAt110(c) == c.reads[1]
ReadAt80(c) == IF Len(c.reads) = 3 THEN c.reads[2] ELSE c.reads[1]
ReadAt90(c) == c.reads[Len(c.reads)]
\* the call c refills the bucket of u: an isRateLimited or getRateLimitStatus
\* call for u, or a getRateLimitStats call
Refills(c, u) ==
  \/ c.name \in {"isRateLimited", "getRateLimitStatus"} /\ c.userId = u
  \/ c.name = "getRateLimitStats"
\* the value Date.now() gave refillTokens when the call c refilled the bucket
\* of u, a user with a record: the last read of isRateLimited, the first read
\* of getRateLimitStatus, and of the reads of getRateLimitStats the one made
\* for u's record
RefillRead(c, u) ==
  IF c.name = "isRateLimited" THEN ReadAt90(c)
  ELSE IF c.name = "getRateLimitStatus" THEN c.reads[1]
  ELSE c.reads[CHOOSE i \in DOMAIN storeKeys : storeKeys[i] = u]
Capacity == RATE_LIMIT_CONFIG.BUCKET_CAPACITY
Rate == RATE_LIMIT_CONFIG.REFILL_RATE
Interval == RATE_LIMIT_CONFIG.REFILL_INTERVAL_MS

\* ---- C1 - C3: counting the calls admitted at one clock value ----
\* the record has not been touched since the instant it was created: every
\* isRateLimited call for it was made then, and no refill has happened since
UntouchedSinceCreation(u, record) ==
  /\ record.lastAccess = run[u].created
  /\ record.bucket.lastRefill = run[u].created

\* min(capacity, capacity - c + k * refillRate) for a record from which c tokens
\* were taken at its creation, k refill intervals ago
ExpectedAfterIntervals(u, record) ==
  LET c == Capacity - record.bucket.tokens
      k == (now - run[u].created) \div Interval
  IN Min(Capacity, Capacity - c + k * Rate)

\* C1: of the isRateLimited calls made for a user at the instant its record is
\* created, the first BUCKET_CAPACITY are admitted (return false) and every
\* later one is rejected (returns true).
C1_BurstUpToCapacity ==
  \A u \in Tracked :
    run[u].created = now =>
      /\ run[u].n >= 1
      /\ run[u].rejected = (run[u].n > Capacity)
      /\ CallIs("isRateLimited", u) => ret.rejected = (run[u].n > Capacity)

\* a new user has made capacity + 2 calls at one instant; the last was rejected
C1_Witness ==
  \E u \in Tracked :
    /\ run[u].created = now
    /\ run[u].n = Capacity + 2
    /\ CallIs("isRateLimited", u)
    /\ ret.rejected = TRUE

\* C2: when the latest isRateLimited call for a user was rejected at time T and
\* the clock then moved to T + REFILL_INTERVAL_MS, the calls made for that user
\* at T + REFILL_INTERVAL_MS admit exactly REFILL_RATE of them and reject the
\* following ones, whatever lastRefill was at the rejection.
C2_OneIntervalAdmitsRefillRate ==
  \A u \in Tracked :
    (/\ run[u].n >= 1
     /\ run[u].before.isCurrentlyRateLimited
     /\ run[u].before.lastAccess + Interval = now) =>
      /\ Rate <= Capacity
      /\ run[u].rejected = (run[u].n > Rate)
      /\ CallIs("isRateLimited", u) => ret.rejected = (run[u].n > Rate)

\* a user rejected half an interval after its last refill has, one interval
\* later, been admitted refillRate times and then rejected
C2_Witness ==
  \E u \in Tracked :
    /\ run[u].before.isCurrentlyRateLimited
    /\ run[u].before.lastAccess + Interval = now
    /\ run[u].before.bucket.lastRefill < run[u].before.lastAccess
    /\ run[u].n = Rate + 1
    /\ CallIs("isRateLimited", u)
    /\ ret.rejected = TRUE

\* C3: for a bucket from which c < capacity tokens were taken at its creation
\* and that has not been touched since, k whole refill intervals later
\* getRateLimitStatus reports min(capacity, capacity - c + k * refillRate)
\* tokens, never more than capacity, and exactly that many isRateLimited calls
\* are admitted at that instant before the first rejection.
C3_TokensAfterWholeIntervals ==
  [][/\ \A u \in Tracked :
          (/\ CallIs("getRateLimitStatus", u)'
           /\ UntouchedSinceCreation(u, rateLimitStore[u])
           /\ rateLimitStore[u].bucket.tokens >= 1
           /\ (now - run[u].created) % Interval = 0) =>
             /\ ret'.tokensRemaining = ExpectedAfterIntervals(u, rateLimitStore[u])
             /\ ret'.tokensRemaining <= Capacity
     /\ \A u \in DOMAIN rateLimitStore' :
          (/\ run'[u].n >= 1
           /\ UntouchedSinceCreation(u, run[u].before)'
           /\ run'[u].before.bucket.tokens >= 1
           /\ (now' - run'[u].created) % Interval = 0) =>
             run'[u].rejected = (run'[u].n > ExpectedAfterIntervals(u, run[u].before)')
    ]_vars

\* nine tokens were taken from a new bucket; two intervals later the sixth
\* call is the first to be rejected (1 + 2 * 2 = 5 tokens)
C3_Witness ==
  \E u \in Tracked :
    /\ UntouchedSinceCreation(u, run[u].before)
    /\ run[u].before.bucket.tokens = 1
    /\ now - run[u].created = 2 * Interval
    /\ run[u].n = 2 * Rate + 2
    /\ CallIs("isRateLimited", u)
    /\ ret.rejected = TRUE

\* C4: a refill made when 0 <= now - lastRefill < REFILL_INTERVAL_MS (now: the
\* value Date.now() gives that refill), whether by
\* isRateLimited, getRateLimitStatus or getRateLimitStats, grants no token and
\* leaves tokens and lastRefill as they were: status and stats leave the bucket
\* unchanged, and isRateLimited decides on the old token count (so a depleted
\* user is still rejected) and only takes the one token it consumes.
C4_PartialIntervalGrantsNothing ==
  [][\A u \in Tracked :
       LET b == rateLimitStore[u].bucket
           elapsed == RefillRead(call', u) - b.lastRefill
       IN (Refills(call', u) /\ 0 <= elapsed /\ elapsed < Interval) =>
            /\ CallIs("getRateLimitStatus", u)' =>
                  /\ rateLimitStore'[u].bucket = b
                  /\ ret'.tokensRemaining = b.tokens
            /\ CallIs("getRateLimitStats", NoUser)' => rateLimitStore'[u].bucket = b
            /\ CallIs("isRateLimited", u)' =>
                  /\ rateLimitStore'[u].bucket.lastRefill = b.lastRefill
                  /\ ret'.rejected = (b.tokens < 1)
                  /\ rateLimitStore'[u].bucket.tokens = b.tokens - (IF ret'.rejected THEN 0 ELSE 1)
    ]_vars

\* a depleted user has just been rejected half an interval after the last refill
C4_Witness ==
  \E u \in Tracked :
    /\ CallIs("isRateLimited", u)
    /\ ret.rejected = TRUE
    /\ run[u].n = 1
    /\ run[u].before.bucket.tokens = 0
    /\ rateLimitStore[u].bucket.tokens = 0
    /\ now - rateLimitStore[u].bucket.lastRefill = Interval \div 2

\* C5: an isRateLimited or getRateLimitStatus call for user a leaves every
\* other user b as it was: b is tracked after the call iff it was before, b's
\* record (tokens, lastRefill, lastAccess, limited flag) is unchanged, and so
\* the answers b would now get are the ones it would have got without the call.
C5_UsersAreIsolated ==
  [][\A a \in Users :
       (CallIs("isRateLimited", a)' \/ CallIs("getRateLimitStatus", a)') =>
         \A b \in Users \ {a} :
           /\ (b \in DOMAIN rateLimitStore') <=> (b \in Tracked)
           /\ b \in Tracked => rateLimitStore'[b] = rateLimitStore[b]
           /\ checkResult(RATE_LIMIT_CONFIG, rateLimitStore', b, now', now', now')
                = checkResult(RATE_LIMIT_CONFIG, rateLimitStore, b, now', now', now')
           /\ statusResult(RATE_LIMIT_CONFIG, rateLimitStore', b, now', now')
                = statusResult(RATE_LIMIT_CONFIG, rateLimitStore, b, now', now')
    ]_vars

\* one user has been depleted and rejected while the other still holds all
\* tokens but the one it used
C5_Witness ==
  \E a \in Tracked : \E b \in Tracked \ {a} :
    /\ CallIs("isRateLimited", a)
    /\ ret.rejected = TRUE
    /\ rateLimitStore[a].bucket.tokens = 0
    /\ rateLimitStore[b].bucket.tokens = Capacity - 1

\* C6: in every reachable state, whatever calls, timer callbacks and clock
\* changes (forward or backward) led to it, every tracked bucket has
\* 0 <= tokens <= capacity.
C6_TokensWithinBounds ==
  \A u \in Tracked :
    /\ 0 <= rateLimitStore[u].bucket.tokens
    /\ rateLimitStore[u].bucket.tokens <= rateLimitStore[u].bucket.capacity

\* a refill over so many intervals that the grant had to be clamped has happened
C6_Witness ==
  \E u \in Tracked :
    LET b == run[u].before.bucket IN
    /\ rateLimitStore[u].bucket.lastRefill = now
    /\ b.lastRefill < now
    /\ b.tokens + ((now - b.lastRefill) \div Interval) * b.refillRate > b.capacity
    /\ rateLimitStore[u].bucket.tokens = b.capacity
    /\ run[u].n = 0

\* C7: for every tracked record, isCurrentlyRateLimited is true iff the latest
\* isRateLimited call for that user on this record returned true (rejected);
\* status and stats calls in between do not change it.
C7_FlagIsLastDecision ==
  \A u \in Tracked : rateLimitStore[u].isCurrentlyRateLimited = run[u].rejected

\* a status call has been made for a user whose latest check was rejected
C7_Witness ==
  \E u \in Tracked :
    /\ CallIs("getRateLimitStatus", u)
    /\ run[u].rejected
    /\ rateLimitStore[u].isCurrentlyRateLimited

\* C8: an isRateLimited call logs at most one event: "User hit rate limit" iff
\* it rejects and the record was not marked limited before the call, the
\* recovery message (with the token count left after consuming) iff it admits
\* and the record was marked limited before the call, and nothing otherwise.
C8_OneEventPerTransition ==
  [][\A u \in Users :
       CallIs("isRateLimited", u)' =>
         LET wasLimited == u \in Tracked /\ rateLimitStore[u].isCurrentlyRateLimited
             throttled == {i \in 1..Len(log') : log'[i].level = "warn"}
             recovered == {i \in 1..Len(log') : log'[i].level = "info"}
         IN /\ Len(log') <= 1
            /\ Cardinality(throttled) + Cardinality(recovered) = Len(log')
            /\ (throttled # {}) <=> (ret'.rejected /\ ~wasLimited)
            /\ (recovered # {}) <=> (~ret'.rejected /\ wasLimited)
            /\ \A i \in throttled \cup recovered :
                  /\ log'[i].userId = u
                  /\ log'[i].tokensRemaining = rateLimitStore'[u].bucket.tokens
    ]_vars

\* a limited user has just been admitted again and the recovery was logged
C8_Witness ==
  \E u \in Tracked :
    /\ CallIs("isRateLimited", u)
    /\ ret.rejected = FALSE
    /\ run[u].before.isCurrentlyRateLimited
    /\ run[u].n = 1
    /\ Len(log) = 1
    /\ log[1].level = "info"
    /\ log[1].tokensRemaining = Rate - 1

\* C9: getRateLimitStatus for a user with no record returns the full
\* configured bucket with nextRefillIn = 0, and leaves the store as it was:
\* no record is created and the number of tracked users is unchanged.
C9_StatusOfUnknownUser ==
  [][\A u \in Users :
       (CallIs("getRateLimitStatus", u)' /\ u \notin Tracked) =>
          /\ ret' = [tokensRemaining |-> Capacity, capacity |-> Capacity,
                     refillRate |-> Rate, nextRefillIn |-> 0]
          /\ rateLimitStore' = rateLimitStore
          /\ Cardinality(DOMAIN rateLimitStore') = Cardinality(Tracked)
    ]_vars

\* status has been asked for an untracked user while another user is tracked
C9_Witness ==
  \E u \in Users :
    /\ CallIs("getRateLimitStatus", u)
    /\ u \notin Tracked
    /\ Tracked # {}
    /\ ret.tokensRemaining = Capacity
    /\ ret.nextRefillIn = 0

\* C10: getRateLimitStatus for a tracked user refills the bucket for the time
\* elapsed when refillTokens reads the clock, then returns the tokens of the
\* refilled bucket and nextRefillIn = max(0, REFILL_INTERVAL_MS - (now -
\* lastRefill)) with the lastRefill the refill left and now the clock value
\* read after the refill; after less than one interval it reports the old
\* token count and REFILL_INTERVAL_MS minus the elapsed time.
C10_StatusOfTrackedUser ==
  [][\A u \in Tracked :
       CallIs("getRateLimitStatus", u)' =>
         LET b == rateLimitStore[u].bucket
             atRefill == call'.reads[1]
             atReturn == call'.reads[2]
             elapsed == atRefill - b.lastRefill
             refilled == elapsed >= Interval
             tokens == IF refilled
                       THEN Min(b.capacity, b.tokens + (elapsed \div Interval) * b.refillRate)
                       ELSE b.tokens
             lastRefill == IF refilled THEN atRefill ELSE b.lastRefill
         IN /\ atRefill = now /\ atReturn = now' /\ atRefill <= atReturn
            /\ rateLimitStore'[u].bucket.tokens = tokens
            /\ rateLimitStore'[u].bucket.lastRefill = lastRefill
            /\ ret'.tokensRemaining = tokens
            /\ ret'.capacity = b.capacity
            /\ ret'.refillRate = b.refillRate
            /\ ret'.nextRefillIn = Max(0, Interval - (atReturn - lastRefill))
            /\ (0 <= elapsed /\ atReturn - b.lastRefill < Interval) =>
                  /\ ret'.tokensRemaining = b.tokens
                  /\ ret'.nextRefillIn = Interval - (atReturn - b.lastRefill)
    ]_vars

\* status was asked half an interval after a new user made three calls
C10_Witness ==
  \E u \in Tracked :
    /\ CallIs("getRateLimitStatus", u)
    /\ run[u].created = rateLimitStore[u].bucket.lastRefill
    /\ now - run[u].created = Interval \div 2
    /\ ret.tokensRemaining = Capacity - 3
    /\ ret.nextRefillIn = Interval \div 2

\* the tokens a refill at clock value t leaves in the bucket of a tracked
\* user, and none for a user without a record
TokensIfRefilledAt(u, t) ==
  IF u \notin Tracked THEN 0
  ELSE LET bucket == rateLimitStore[u].bucket
           elapsed == t - bucket.lastRefill
       IN IF elapsed >= Interval
          THEN Min(bucket.capacity, bucket.tokens + (elapsed \div Interval) * bucket.refillRate)
          ELSE bucket.tokens

\* C11: getRateLimitStats returns as activeUsers the number of user ids that
\* have a record, and as totalTokensInCirculation the sum of the tokens of
\* the records, each refilled to the clock value read for it; both are 0
\* when the store is empty.
C11_StatsCountAndSum ==
  [][CallIs("getRateLimitStats", NoUser)' =>
       /\ ret'.activeUsers = Cardinality(Tracked)
       /\ ret'.totalTokensInCirculation
            = TokensIfRefilledAt("u1", RefillRead(call', "u1"))
                + TokensIfRefilledAt("u2", RefillRead(call', "u2"))
       /\ Tracked = {} => ret'.activeUsers = 0 /\ ret'.totalTokensInCirculation = 0
       /\ \A u \in Tracked :
            /\ rateLimitStore'[u].bucket.tokens = TokensIfRefilledAt(u, RefillRead(call', u))
            /\ now <= RefillRead(call', u) /\ RefillRead(call', u) <= now'
    ]_vars

\* stats were taken over two users who had made one call each at clock value
\* 0, and the clock reached one interval between the refills of the two
\* records: the sum counts one bucket as it was and the other one refilled
C11_Witness ==
  /\ CallIs("getRateLimitStats", NoUser)
  /\ Tracked = Users
  /\ ret.activeUsers = 2
  /\ Len(call.reads) = 2
  /\ call.reads[1] < Interval /\ call.reads[2] = Interval
  /\ rateLimitStore[storeKeys[1]].bucket.lastRefill = 0
  /\ rateLimitStore[storeKeys[1]].bucket.tokens = Capacity - 1
  /\ rateLimitStore[storeKeys[2]].bucket.lastRefill = Interval
  /\ rateLimitStore[storeKeys[2]].bucket.tokens = Capacity
  /\ ret.totalTokensInCirculation = (Capacity - 1) + Capacity

\* C12: whatever initializeRateLimiter and cleanupRateLimiter calls were made,
\* at most one cleanup timer is scheduled, and none is scheduled (so no
\* cleanup callback can run) from a cleanupRateLimiter call until the next
\* initializeRateLimiter call.
C12_AtMostOneTimer ==
  /\ timers <= 1
  /\ ~cleanupInterval => timers = 0

\* C13: cleanupRateLimiter can be called in every state and leaves the store
\* empty; an isRateLimited call for a user without a record (every user,
\* after a cleanupRateLimiter call, also one that was limited before it) is
\* served as a first call: a full bucket is created at the clock value read
\* by createTokenBucket, one token is taken, the call is admitted and nothing
\* is logged.
C13_StopThenFirstCall ==
  [][/\ ENABLED cleanupRateLimiter
     /\ CallIs("cleanupRateLimiter", NoUser)' => rateLimitStore' = << >>
     /\ \A u \in Users :
          (u \notin Tracked /\ CallIs("isRateLimited", u)') =>
             /\ ret'.rejected = FALSE
             /\ log' = << >>
             /\ rateLimitStore'[u].bucket.tokens = Capacity - 1
             /\ rateLimitStore'[u].bucket.lastRefill = ReadAt80(call')
             /\ rateLimitStore'[u].lastAccess = ReadAt110(call')
             /\ now = ReadAt110(call') /\ ReadAt110(call') <= ReadAt80(call')
             /\ ReadAt80(call') <= now'
             /\ ~rateLimitStore'[u].isCurrentlyRateLimited
    ]_vars

\* a user was limited, cleanupRateLimiter was called at the same clock value
\* (no cleanup callback removes a record that was just used), and the user's
\* next call was admitted with a new full bucket and no recovery message
C13_Witness ==
  \E u \in Tracked :
    /\ CallIs("isRateLimited", u)
    /\ now = 0
    /\ u \in lastWarned
    /\ run[u].n = 1
    /\ ret.rejected = FALSE
    /\ log = << >>
    /\ rateLimitStore[u].bucket.tokens = Capacity - 1

\* C14: with REFILL_RATE = 0, once a call of a user was rejected (and logged
\* as "User hit rate limit"), every later isRateLimited call of that user on
\* the started limiter is rejected, whatever clock changes, status calls,
\* stats calls and cleanup callbacks come in between.
C14_NoRecoveryAtRateZero ==
  [][\A u \in Users :
       (/\ RATE_LIMIT_CONFIG.REFILL_RATE = 0
        /\ u \in lastWarned
        /\ CallIs("isRateLimited", u)') => ret'.rejected = TRUE
    ]_vars

\* C15: with the shipped configuration and a clock that never goes back, in
\* every schedule of isRateLimited calls and clock changes, every
\* isRateLimited call returns what the same call returns on a store that was
\* given the same calls at the same clock values but was never swept by the
\* cleanup callback.
C15_SweepDoesNotChangeDecisions ==
  [][\A u \in Users :
       (mirror.mode = "noSweep" /\ CallIs("isRateLimited", u)') =>
          ret'.rejected = checkResult(RATE_LIMIT_CONFIG, mirror.store, u,
                                      ReadAt110(call'), ReadAt80(call'), ReadAt90(call'))
    ]_vars

\* C16: every isRateLimited call returns what the same call returns on a store
\* that was given the same isRateLimited calls, stats calls and cleanup
\* callbacks at the same clock values, but no getRateLimitStatus call.
C16_StatusDoesNotChangeDecisions ==
  [][\A u \in Users :
       (mirror.mode = "noStatus" /\ CallIs("isRateLimited", u)') =>
          ret'.rejected = checkResult(RATE_LIMIT_CONFIG, mirror.store, u,
                                      ReadAt110(call'), ReadAt80(call'), ReadAt90(call'))
    ]_vars

\* C17: when the clock reads less than a bucket's lastRefill, the refill that
\* isRateLimited, getRateLimitStatus and getRateLimitStats begin with changes
\* neither tokens nor lastRefill, and isRateLimited decides on the token count
\* the bucket had: it admits and takes one token iff that count is at least 1.
C17_ClockSetBackRefillsNothing ==
  [][\A u \in Tracked :
       LET bucket == rateLimitStore[u].bucket
           after == rateLimitStore'[u].bucket
       IN (Refills(call', u) /\ RefillRead(call', u) < bucket.lastRefill) =>
            /\ (CallIs("getRateLimitStatus", u)' \/ CallIs("getRateLimitStats", NoUser)') =>
                  /\ after = bucket
                  /\ CallIs("getRateLimitStatus", u)' => ret'.tokensRemaining = bucket.tokens
            /\ CallIs("isRateLimited", u)' =>
                  /\ after.lastRefill = bucket.lastRefill
                  /\ ret'.rejected = (bucket.tokens < 1)
                  /\ after.tokens = IF bucket.tokens >= 1 THEN bucket.tokens - 1
                                    ELSE bucket.tokens
    ]_vars

\* the clock was set back by a whole interval after a user had used up the
\* bucket, and the user's next call was rejected on the 0 tokens left
C17_Witness ==
  \E u \in Tracked :
    /\ CallIs("isRateLimited", u)
    /\ rateLimitStore[u].bucket.lastRefill - now >= Interval
    /\ run[u].n = 1
    /\ run[u].before.bucket.tokens = 0
    /\ ret.rejected = TRUE
    /\ rateLimitStore[u].bucket.tokens = 0

\* C18: a limiter whose configured bucket capacity is 0 or less serves no
\* isRateLimited call.
C18_NoServiceWithoutCapacity ==
  RATE_LIMIT_CONFIG.BUCKET_CAPACITY <= 0 => \A u \in Users : ~CallIs("isRateLimited", u)

\* the events of one level that the latest call logged
Logged(level) == {i \in 1..Len(log) : log[i].level = level}

\* C19 as stated: on a started limiter that is not stopped, the events logged
\* for a user alternate "User hit rate limit", recovery, "User hit rate
\* limit", ..., beginning with "User hit rate limit": the warning is logged
\* only when the user's latest event is not a warning, the recovery only when
\* it is.
C19_EventsAlternatePerUser ==
  [][\A u \in Users :
       CallIs("isRateLimited", u)' =>
         /\ Logged("warn")' # {} => u \notin lastWarned
         /\ Logged("info")' # {} => u \in lastWarned
    ]_vars

\* C19, amended: the events logged for one record, from the call that creates
\* it to its removal from the store, alternate in that way; the record a user
\* gets after a cleanup callback removed the earlier one begins a new sequence.
C19_EventsAlternatePerRecord ==
  [][\A u \in Users :
       CallIs("isRateLimited", u)' =>
         LET warned == u \in Tracked /\ run[u].warned
         IN /\ Logged("warn")' # {} => ~warned
            /\ Logged("info")' # {} => warned
            /\ Len(log') <= 1
    ]_vars

\* a record's second warning: the user was limited when the clock moved one
\* interval on, was admitted again (recovery), used the refill up and has just
\* been rejected
C19_Witness ==
  \E u \in Tracked :
    /\ CallIs("isRateLimited", u)
    /\ Logged("warn") # {}
    /\ run[u].before.isCurrentlyRateLimited
    /\ run[u].created < now
    /\ run[u].n = Rate + 1
    /\ run[u].warned

\* C20: a cleanup callback running at clock value `now` removes the records
\* with now - lastAccess > CLEANUP_AFTER_MS and no other, and leaves the kept
\* records as they were; every isRateLimited call sets lastAccess to the clock
\* value, also when it rejects, so a record used CLEANUP_AFTER_MS ago or less
\* is kept.
C20_SweepRemovesIdleRecordsOnly ==
  [][/\ CallIs("cleanupCallback", NoUser)' =>
          /\ DOMAIN rateLimitStore'
               = {u \in Tracked : now - rateLimitStore[u].lastAccess <= CLEANUP_AFTER_MS}
          /\ \A u \in DOMAIN rateLimitStore' : rateLimitStore'[u] = rateLimitStore[u]
     /\ \A u \in Users :
          CallIs("isRateLimited", u)' =>
             /\ rateLimitStore'[u].lastAccess = ReadAt110(call')
             /\ ReadAt110(call') = now
    ]_vars

\* the callback has just removed the record of a user idle for longer than
\* the threshold and kept the record of a user whose latest call, at this
\* clock value, was rejected
C20_Witness ==
  \E b \in Users :
    /\ CallIs("cleanupCallback", NoUser)
    /\ Len(log) = 1
    /\ log[1].cleanedUpUsers = 1
    /\ Tracked = {b}
    /\ rateLimitStore[b].lastAccess = now
    /\ rateLimitStore[b].isCurrentlyRateLimited

\* C21: with a negative REFILL_RATE, a getRateLimitStatus or getRateLimitStats
\* call (which only refill) never leaves a bucket with fewer tokens than it
\* had, and every tracked bucket keeps 0 <= tokens <= capacity.
C21_NegativeRateNeverLowers ==
  [][RATE_LIMIT_CONFIG.REFILL_RATE < 0 =>
       \A u \in Tracked \cap DOMAIN rateLimitStore' :
         LET bucket == rateLimitStore[u].bucket
             after == rateLimitStore'[u].bucket
         IN /\ (CallIs("getRateLimitStatus", u)' \/ CallIs("getRateLimitStats", NoUser)')
                  => after.tokens >= bucket.tokens
            /\ 0 <= after.tokens
            /\ after.tokens <= after.capacity
    ]_vars

\* C22: a call that refills a bucket (isRateLimited, getRateLimitStatus,
\* getRateLimitStats) when now - lastRefill >= REFILL_INTERVAL_MS sets its
\* lastRefill to now, the clock value its refillTokens reads, whatever the
\* refill rate and the token count are; so, the clock never going back, the
\* bucket a call has touched has 0 <= now - lastRefill < REFILL_INTERVAL_MS
\* after the call, for that same clock value.
C22_RefillStampsNow ==
  [][\A u \in Users :
       ((CallIs("isRateLimited", u)' \/ CallIs("getRateLimitStatus", u)'
           \/ CallIs("getRateLimitStats", NoUser)') /\ u \in DOMAIN rateLimitStore') =>
         LET after == rateLimitStore'[u].bucket
             atRefill == RefillRead(call', u)
         IN /\ (u \in Tracked /\ atRefill - rateLimitStore[u].bucket.lastRefill >= Interval)
                  => after.lastRefill = atRefill
            /\ 0 <= atRefill - after.lastRefill
            /\ atRefill - after.lastRefill < Interval
    ]_vars

\* with REFILL_RATE = 0, status was asked an idle period that is no whole
\* number of intervals after the user's only call: no token was granted and
\* lastRefill is the clock value
C22_Witness ==
  \E u \in Tracked :
    /\ RATE_LIMIT_CONFIG.REFILL_RATE = 0
    /\ CallIs("getRateLimitStatus", u)
    /\ run[u].before.bucket.lastRefill = 0
    /\ now % Interval # 0
    /\ now > Interval
    /\ rateLimitStore[u].bucket.lastRefill = now
    /\ rateLimitStore[u].bucket.tokens = run[u].before.bucket.tokens

\* C23: a getRateLimitStatus or getRateLimitStats call leaves the set of
\* tracked users as it was and, in every record, lastAccess,
\* isCurrentlyRateLimited, lastRateLimitLog and the bucket's capacity and
\* refillRate; only tokens and lastRefill may differ.  So the records the
\* cleanup callback would remove are the same before and after the call.
C23_StatusAndStatsFrame ==
  [][(CallIs("getRateLimitStats", NoUser)'
        \/ \E a \in Users : CallIs("getRateLimitStatus", a)') =>
       /\ DOMAIN rateLimitStore' = Tracked
       /\ \A u \in Tracked :
            rateLimitStore'[u]
              = [rateLimitStore[u] EXCEPT !.bucket.tokens = rateLimitStore'[u].bucket.tokens,
                                          !.bucket.lastRefill = rateLimitStore'[u].bucket.lastRefill]
       /\ entriesToDelete(RATE_LIMIT_CONFIG, rateLimitStore', now)
            = entriesToDelete(RATE_LIMIT_CONFIG, rateLimitStore, now)
    ]_vars

\* status has just refilled the bucket of a limited user that has been idle
\* for longer than the cleanup threshold: the record is still marked limited,
\* still carries the time of its last call and is still due for removal
C23_Witness ==
  \E u \in Tracked :
    /\ CallIs("getRateLimitStatus", u)
    /\ rateLimitStore[u].isCurrentlyRateLimited
    /\ rateLimitStore[u].bucket.lastRefill = now
    /\ rateLimitStore[u].bucket.tokens = Capacity
    /\ run[u].before.bucket.tokens = 0
    /\ now - rateLimitStore[u].lastAccess > CLEANUP_AFTER_MS
    /\ u \in entriesToDelete(RATE_LIMIT_CONFIG, rateLimitStore, now)

\* C24: with the shipped configuration, a clock that never goes back and no
\* cleanupRateLimiter call, the isRateLimited calls of one user admitted
\* between two clock values t and t + W (both included) number at most
\* BUCKET_CAPACITY + REFILL_RATE * (floor(W / REFILL_INTERVAL_MS) + 1),
\* whatever status calls, stats calls and cleanup callbacks come in between.
\* The window counts from its first admitted call (start) to the current
\* clock value.
C24_SustainedRateBound ==
  window.start >= 0 =>
    window.admitted
      <= BUCKET_CAPACITY + REFILL_RATE * ((now - window.start) \div REFILL_INTERVAL_MS + 1)

\* a window that starts in the middle of a refill interval, after the user's
\* first call, and spans the end of that interval: the user took the rest of
\* the burst and then the two tokens refilled, which is more than
\* BUCKET_CAPACITY + REFILL_RATE * floor(W / REFILL_INTERVAL_MS)
C24_Witness ==
  /\ CallIs("isRateLimited", window.userId)
  /\ ret.rejected = FALSE
  /\ window.from < WindowAdvances
  /\ window.start > 0
  /\ rateLimitStore[window.userId].bucket.lastRefill - window.start
       = REFILL_INTERVAL_MS \div 2
  /\ now - window.start < REFILL_INTERVAL_MS
  /\ rateLimitStore[window.userId].bucket.tokens = 0
  /\ window.admitted = BUCKET_CAPACITY - 1 + REFILL_RATE
  /\ window.admitted
       > BUCKET_CAPACITY + REFILL_RATE * ((now - window.start) \div REFILL_INTERVAL_MS)

\* the record of u was last used by isRateLimited more than CLEANUP_AFTER_MS ago
IdleLong(u) == u \in Tracked /\ now - rateLimitStore[u].lastAccess > CLEANUP_AFTER_MS

\* C25: on a started limiter whose timer keeps firing, a record that has been
\* idle for longer than CLEANUP_AFTER_MS is eventually removed, unless the
\* user calls isRateLimited again first; and right after a timer callback no
\* tracked record has been idle for longer than CLEANUP_AFTER_MS plus the
\* timer period.
C25_IdleRecordsAreEvicted ==
  /\ \A u \in Users : IdleLong(u) ~> ~IdleLong(u)
  /\ [](CallIs("cleanupCallback", NoUser) =>
          \A u \in Tracked :
            now - rateLimitStore[u].lastAccess <= CLEANUP_AFTER_MS + CLEANUP_EVERY_MS)

\* the timer callback has just removed the only record, that of a user who
\* had been rejected and made no call since
C25_Witness ==
  /\ CallIs("cleanupCallback", NoUser)
  /\ Tracked = {}
  /\ Len(log) = 1
  /\ log[1].cleanedUpUsers = 1
  /\ lastWarned # {}
  /\ now > CLEANUP_AFTER_MS

\* ---- runTerminalCommand (sdk/src/tools/run-terminal-command.ts) ----

\* values of the timeout_seconds argument: no timeout, and two timeouts
TimeoutChoices == {-1, 0, 1}

\* values of the process_type argument
ProcessTypes == {"SYNC", "BACKGROUND"}

\* values of the command argument: a command, and one that holds a null byte
NUL == "\\0"
Commands == {<<"e", "c", "h", "o">>, <<"e", "c", "h", "o", NUL>>}

\* values of the cwd argument: a directory, and undefined (the type is erased
\* at run time)
Undefined == "undefined"
Cwds == {".", Undefined}

\* a chunk of output of the child process
Chunks == {"x"}

\* the exitCode argument of 'close': a code, or null (written -1) when the
\* child was ended by a signal
NullExitCode == -1
ExitCodes == {0, 1, NullExitCode}

\* resolve(value) or reject(value) called on promise p: only the first call
\* settles it
settle(p, state, value) ==
  [state |-> IF p.state = "pending" THEN state ELSE p.state,
   value |-> IF p.state = "pending" THEN value ELSE p.value,
   calls |-> p.calls + 1]

\* clearTimeout(timer) under `if (timer)`: a timeout that has not fired yet
\* will not fire
clearTimeout(t) == IF t = "armed" THEN "cleared" ELSE t

\* what the 'close' listener resolves with: exitCode (left out when null) and
\* the collected stdout and stderr from which the two output fields are made
combinedOutput(exitCode, out, err) ==
  [type |-> "json", hasExitCode |-> exitCode # NullExitCode, exitCode |-> exitCode,
   stdoutFrom |-> out, stderrFrom |-> err]

TimedOut == [type |-> "error", message |-> "Command timed out"]
FailedToSpawn == [type |-> "error", message |-> "Failed to spawn command"]
NotImplemented == [type |-> "error", message |-> "BACKGROUND process_type not implemented"]
InvalidArgType == [type |-> "error", message |-> "ERR_INVALID_ARG_TYPE"]
InvalidArgValue == [type |-> "error", message |-> "ERR_INVALID_ARG_VALUE"]
SpawnException == [type |-> "error", message |-> "spawn ENOMEM"]
StdoutUndefined ==
  [type |-> "error",
   message |-> "TypeError: Cannot read properties of undefined (reading 'on')"]

\* answers of the operating system to the start of a child process
SpawnErrors == {"none", "EMFILE", "ENOMEM"}

\* path.resolve(cwd) throws when cwd is not a string
resolveThrows(dir) == dir = Undefined

\* spawn(shell, [...shellArgs, command], ...) throws when an argument holds a
\* null byte
spawnThrows(cmd) == \E i \in DOMAIN cmd : cmd[i] = NUL

\* spawn(...) returns a child without stdout and stderr when no file
\* descriptor is left; the child emits 'error' from process.nextTick
spawnWithoutStdio(err) == err = "EMFILE"

\* runTerminalCommand(...) up to its return: a BACKGROUND call throws and
\* returns no promise; an exception thrown in the promise executor rejects the
\* promise without a reject call. path.resolve (line 38) and spawn (line 40)
\* throw before the timeout is set; childProcess.stdout.on (line 71) throws
\* after it is set (lines 55-68), when spawn returned a child without stdout,
\* and no listener is attached. Otherwise the child is spawned, the timeout is
\* set when timeout_seconds >= 0 and the listeners are attached
runTerminalCommand(type, cmd, dir, seconds, err) ==
  IF type = "BACKGROUND"
  THEN [childProcess |-> "none", timer |-> "null",
        promise |-> [state |-> "none", value |-> NotImplemented, calls |-> 0]]
  ELSE IF resolveThrows(dir)
  THEN [childProcess |-> "none", timer |-> "null",
        promise |-> [state |-> "rejected", value |-> InvalidArgType, calls |-> 0]]
  ELSE IF spawnThrows(cmd)
  THEN [childProcess |-> "none", timer |-> "null",
        promise |-> [state |-> "rejected", value |-> InvalidArgValue, calls |-> 0]]
  ELSE IF err = "ENOMEM"
  THEN [childProcess |-> "none", timer |-> "null",
        promise |-> [state |-> "rejected", value |-> SpawnException, calls |-> 0]]
  ELSE IF spawnWithoutStdio(err)
  THEN [childProcess |-> "spawned",
        timer |-> IF seconds >= 0 THEN "armed" ELSE "null",
        promise |-> [state |-> "rejected", value |-> StdoutUndefined, calls |-> 0]]
  ELSE [childProcess |-> "spawned",
        timer |-> IF seconds >= 0 THEN "armed" ELSE "null",
        promise |-> [state |-> "pending", value |-> NoValue, calls |-> 0]]

\* the result of the call made with the arguments and in the process of this
\* behaviour
Outcome == runTerminalCommand(process_type, command, cwd, timeout_seconds, spawnError)

\* lines 71-123 ran: the 'data', 'close' and 'error' listeners are attached
Listening == childProcess = "spawned" /\ ~spawnWithoutStdio(spawnError)

\* an uncaught exception has ended the process
Exited == \E i \in DOMAIN emitted : emitted[i] = "exit"

\* runTerminalCommand has returned or thrown
InitCommand ==
  /\ Loaded
  /\ lastWarned = {NoUser}
  /\ mirror = NoMirror
  /\ window = NoWindow
  /\ advances = 0
  /\ quota = [u \in Users |-> 0]
  /\ process_type \in ProcessTypes
  /\ command \in Commands
  /\ cwd \in Cwds
  /\ timeout_seconds \in TimeoutChoices
  /\ spawnError \in SpawnErrors
  /\ childProcess = Outcome.childProcess
  /\ stdout = << >>
  /\ stderr = << >>
  /\ timer = Outcome.timer
  /\ processFinished = FALSE
  /\ promise = Outcome.promise
  /\ signals = << >>
  /\ emitted = << >>

\* the 'error' event of a child that spawn returned without stdio: it is
\* emitted from process.nextTick, before any timeout runs, and the child has no
\* 'error' listener, so emit throws. The uncaught exception ends the process
\* unless the host handles it
uncaughtError ==
  /\ childProcess = "spawned"
  /\ ~Listening
  /\ emitted = << >>
  /\ \E handled \in BOOLEAN :
       emitted' = IF handled THEN <<"error">> ELSE <<"error", "exit">>
  /\ UNCHANGED <<process_type, command, cwd, spawnError, childProcess, timeout_seconds,
                 stdout, stderr, timer, processFinished, promise, signals>>
  /\ UNCHANGED limiterVars

\* what childProcess.kill(signal) may return: either value for a child that
\* was started, false for a child that was not
killResults == IF Listening THEN BOOLEAN ELSE {FALSE}

\* the setTimeout callback
timeoutCallback ==
  /\ timer = "armed"
  /\ ~Exited
  /\ Listening \/ emitted # << >>
  /\ timer' = "fired"
  /\ emitted' = Append(emitted, "timeout")
  /\ IF ~processFinished
     THEN /\ processFinished' = TRUE
          /\ \E success \in killResults :
               signals' = signals \o (IF success THEN <<"SIGTERM">>
                                                 ELSE <<"SIGTERM", "SIGKILL">>)
          /\ promise' = settle(promise, "rejected", TimedOut)
     ELSE UNCHANGED <<processFinished, signals, promise>>
  /\ UNCHANGED <<process_type, command, cwd, spawnError, childProcess, timeout_seconds,
                 stdout, stderr>>
  /\ UNCHANGED limiterVars

\* the 'data' listener of childProcess.stdout
onStdoutData(data) ==
  /\ Listening
  /\ "close" \notin {emitted[i] : i \in DOMAIN emitted}
  /\ Len(stdout) < MaxChunks
  /\ stdout' = Append(stdout, data)
  /\ UNCHANGED <<process_type, command, cwd, spawnError, childProcess, timeout_seconds,
                 stderr, timer, processFinished, promise, signals,
                 emitted>>
  /\ UNCHANGED limiterVars

\* the 'data' listener of childProcess.stderr
onStderrData(data) ==
  /\ Listening
  /\ "close" \notin {emitted[i] : i \in DOMAIN emitted}
  /\ Len(stderr) < MaxChunks
  /\ stderr' = Append(stderr, data)
  /\ UNCHANGED <<process_type, command, cwd, spawnError, childProcess, timeout_seconds,
                 stdout, timer, processFinished, promise, signals,
                 emitted>>
  /\ UNCHANGED limiterVars

\* the 'close' listener of childProcess; the event is emitted once, after the
\* process has ended and its output streams are closed
onClose(exitCode) ==
  /\ Listening
  /\ "close" \notin {emitted[i] : i \in DOMAIN emitted}
  /\ emitted' = Append(emitted, "close")
  /\ IF processFinished
     THEN UNCHANGED <<processFinished, timer, promise>>
     ELSE /\ processFinished' = TRUE
          /\ timer' = clearTimeout(timer)
          /\ promise' = settle(promise, "fulfilled",
                               combinedOutput(exitCode, stdout, stderr))
  /\ UNCHANGED <<process_type, command, cwd, spawnError, childProcess, timeout_seconds,
                 stdout, stderr, signals>>
  /\ UNCHANGED limiterVars

\* the 'error' listener of childProcess
onError ==
  /\ Listening
  /\ Cardinality({i \in DOMAIN emitted : emitted[i] = "error"}) < MaxErrors
  /\ emitted' = Append(emitted, "error")
  /\ IF processFinished
     THEN UNCHANGED <<processFinished, timer, promise>>
     ELSE /\ processFinished' = TRUE
          /\ timer' = clearTimeout(timer)
          /\ promise' = settle(promise, "rejected", FailedToSpawn)
  /\ UNCHANGED <<process_type, command, cwd, spawnError, childProcess, timeout_seconds,
                 stdout, stderr, signals>>
  /\ UNCHANGED limiterVars

\* the callbacks that the event loop may run after runTerminalCommand returned
NextCommand ==
  \/ uncaughtError
  \/ timeoutCallback
  \/ \E data \in Chunks : onStdoutData(data)
  \/ \E data \in Chunks : onStderrData(data)
  \/ \E exitCode \in ExitCodes : onClose(exitCode)
  \/ onError

SpecCommand == InitCommand /\ [][NextCommand]_vars

\* what the first of the three events does to the promise, the child and the
\* timeout of a call for which spawn returned a child
FirstEventSettles ==
  /\ promise.calls = (IF emitted = << >> THEN 0 ELSE 1)
  /\ processFinished = (emitted # << >>)
  /\ emitted = << >> => promise.state = "pending" /\ signals = << >>
  /\ emitted # << >> /\ emitted[1] = "timeout" =>
       /\ promise.state = "rejected" /\ promise.value = TimedOut
       /\ signals \in {<<"SIGTERM">>, <<"SIGTERM", "SIGKILL">>}
       /\ timer = "fired"
  /\ emitted # << >> /\ emitted[1] = "close" =>
       /\ promise.state = "fulfilled"
       /\ promise.value.type = "json"
       /\ promise.value.stdoutFrom = stdout /\ promise.value.stderrFrom = stderr
       /\ signals = << >>
       /\ timer # "armed"
  /\ emitted # << >> /\ emitted[1] = "error" =>
       /\ promise.state = "rejected" /\ promise.value = FailedToSpawn
       /\ signals = << >>
       /\ timer # "armed"

\* C26: for every interleaving of the timeout firing, 'close' and 'error',
\* the promise of runTerminalCommand is settled exactly once, by the first of
\* them (timeout: a kill signal is sent and the promise is rejected; close: it
\* is resolved with the output; error: it is rejected); every later event
\* leaves the promise, the flag, the timeout and the signals sent unchanged,
\* and once close or error came first the timeout is cancelled and no kill is
\* ever sent.
C26_SettleOnce ==
  /\ [](childProcess = "spawned" => FirstEventSettles)
  /\ [][emitted # << >> => UNCHANGED <<promise, processFinished, timer, signals>>]_vars

====
